---- MODULE Spec2Model ----
(***************************************************************************)
(* cirrus: the data package (DisplayRow normalisation, row maps, status    *)
(* tables, pagination collector, tag/parameter loaders) and the down       *)
(* command.  One behaviour is one call: Init draws the operation and its   *)
(* arguments, the operation's action computes what the Go code computes.   *)
(***************************************************************************)
EXTENDS Integers, Sequences, FiniteSets, TLC

VARIABLES op, args, pc, result, stackStatus, displayRows, eventFetches

vars == <<op, args, pc, result, stackStatus, displayRows, eventFetches>>

(***************************************************************************)
(* Bounds of the model.                                                    *)
(***************************************************************************)
\* longest slice of changes / events / resource summaries handed to a builder
MaxRecords == 2
\* most pages a cursor yields
MaxPages == 3
\* most resource summaries on one page
MaxPageLen == 2
\* most entries of a tag / parameter file
MaxEntries == 2

SeqsUpTo(S, n) == UNION {[1..k -> S] : k \in 0..n}

(***************************************************************************)
(* Go values.  A pointer is nil (<<>>) or points to one value (<<v>>);     *)
(* dereferencing nil panics.  A map is a function on its key set.          *)
(***************************************************************************)
Nil == <<>>
Ptr(v) == <<v>>
IsNil(p) == p = <<>>
Deref(p) == p[1]

EmptyMap == <<>>
MapPut(m, k, v) == [x \in (DOMAIN m) \cup {k} |-> IF x = k THEN v ELSE m[x]]

\* the outcome of a call that dereferences pointers: a panic, or a value
Panic == [panic |-> TRUE]
Returns(v) == [panic |-> FALSE, value |-> v]

(***************************************************************************)
(* DisplayRow and its enums.                                               *)
(***************************************************************************)
DisplayRowSourceChangeSet == "change"
DisplayRowSourceEvent == "event"
ChangeActionRemove == "Remove"

\* DisplayRow{}: every field at its zero value (time.Time{} is 0)
ZeroDisplayRow ==
    [LogicalResourceID |-> "", ResourceType |-> "", Status |-> "",
     Timestamp |-> 0, StatusReason |-> "", Replacement |-> "",
     Action |-> "", Source |-> "", Active |-> FALSE]

(***************************************************************************)
(* Status tables (slices, in source order).                                *)
(***************************************************************************)
PositiveEventStatus == <<"CREATE_COMPLETE", "DELETE_COMPLETE", "UPDATE_COMPLETE">>

\* a table with one entry copied from the table above it
NegativeEventStatusCopied == <<"CREATE_FAILED", "DELETE_FAILED", "UPDATE_COMPLETE">>

NegativeEventStatus == <<"CREATE_FAILED", "DELETE_FAILED", "UPDATE_FAILED">>

PendingEventStatus == <<"CREATE_IN_PROGRESS", "DELETE_IN_PROGRESS", "UPDATE_IN_PROGRESS">>

PositiveStackStatus ==
    <<"CREATE_COMPLETE", "DELETE_COMPLETE", "UPDATE_COMPLETE", "ROLLBACK_COMPLETE">>

NegativeStackStatus ==
    <<"CREATE_FAILED", "DELETE_FAILED", "UPDATE_ROLLBACK_COMPLETE",
      "UPDATE_ROLLBACK_FAILED", "ROLLBACK_FAILED">>

\* a table that leaves the rolling-back status out
PendingStackStatusDropsRollback ==
    <<"CREATE_IN_PROGRESS", "DELETE_IN_PROGRESS", "UPDATE_IN_PROGRESS",
      "REVIEW_IN_PROGRESS", "UPDATE_ROLLBACK_IN_PROGRESS",
      "UPDATE_COMPLETE_CLEANUP_IN_PROGRESS",
      "UPDATE_ROLLBACK_COMPLETE_CLEANUP_IN_PROGRESS">>

PendingStackStatus ==
    <<"CREATE_IN_PROGRESS", "DELETE_IN_PROGRESS", "UPDATE_IN_PROGRESS",
      "REVIEW_IN_PROGRESS", "UPDATE_ROLLBACK_IN_PROGRESS", "ROLLBACK_IN_PROGRESS",
      "UPDATE_COMPLETE_CLEANUP_IN_PROGRESS",
      "UPDATE_ROLLBACK_COMPLETE_CLEANUP_IN_PROGRESS">>

RollbackStackStatus == <<"ROLLBACK_IN_PROGRESS">>

\* membership of a status in a table
InTable(table, status) == \E i \in 1..Len(table) : table[i] = status

Elems(table) == {table[i] : i \in 1..Len(table)}

(***************************************************************************)
(* Row Normalizer.                                                         *)
(***************************************************************************)
\* a normaliser that leaves Active at its zero value
CreateDisplayRowFromChangeIgnoresFlag(change, active) ==
    IF IsNil(change.ResourceChange) THEN Panic
    ELSE LET rc == Deref(change.ResourceChange) IN
         IF IsNil(rc.LogicalResourceId) \/ IsNil(rc.ResourceType) THEN Panic
         ELSE Returns([ZeroDisplayRow EXCEPT
                          !.LogicalResourceID = Deref(rc.LogicalResourceId),
                          !.ResourceType = Deref(rc.ResourceType),
                          !.Replacement = rc.Replacement,
                          !.Action = rc.Action,
                          !.Source = DisplayRowSourceChangeSet])

CreateDisplayRowFromChange(change, active) ==
    IF IsNil(change.ResourceChange) THEN Panic
    ELSE LET rc == Deref(change.ResourceChange) IN
         IF IsNil(rc.LogicalResourceId) \/ IsNil(rc.ResourceType) THEN Panic
         ELSE Returns([ZeroDisplayRow EXCEPT
                          !.LogicalResourceID = Deref(rc.LogicalResourceId),
                          !.ResourceType = Deref(rc.ResourceType),
                          !.Replacement = rc.Replacement,
                          !.Action = rc.Action,
                          !.Source = DisplayRowSourceChangeSet,
                          !.Active = active])

CreateDisplayRowFromEvent(event) ==
    IF IsNil(event.LogicalResourceId) \/ IsNil(event.ResourceType)
       \/ IsNil(event.Timestamp)
    THEN Panic
    ELSE Returns([ZeroDisplayRow EXCEPT
                     !.LogicalResourceID = Deref(event.LogicalResourceId),
                     !.ResourceType = Deref(event.ResourceType),
                     !.Status = event.ResourceStatus,
                     !.Timestamp = Deref(event.Timestamp),
                     !.Source = DisplayRowSourceEvent])

\* a normaliser that skips the nil check and defaults the missing type
CreateDisplayRowFromResourceDefaults(resource) ==
    IF IsNil(resource.LogicalResourceId) THEN Panic
    ELSE Returns([ZeroDisplayRow EXCEPT
                     !.LogicalResourceID = Deref(resource.LogicalResourceId),
                     !.Action = ChangeActionRemove,
                     !.ResourceType = IF IsNil(resource.ResourceType) THEN ""
                                      ELSE Deref(resource.ResourceType)])

CreateDisplayRowFromResource(resource) ==
    IF IsNil(resource.LogicalResourceId) \/ IsNil(resource.ResourceType) THEN Panic
    ELSE Returns([ZeroDisplayRow EXCEPT
                     !.LogicalResourceID = Deref(resource.LogicalResourceId),
                     !.Action = ChangeActionRemove,
                     !.ResourceType = Deref(resource.ResourceType)])

(***************************************************************************)
(* Row Map Merger: the three builders and ActivateDisplayRows.             *)
(***************************************************************************)
RECURSIVE ChangeMapLoop(_, _, _, _)
ChangeMapLoop(changes, active, i, mapChanges) ==
    IF i > Len(changes) THEN Returns(mapChanges)
    ELSE LET change == changes[i] IN
         IF IsNil(change.ResourceChange) THEN Panic
         ELSE IF IsNil(Deref(change.ResourceChange).LogicalResourceId) THEN Panic
         ELSE LET row == CreateDisplayRowFromChange(change, active) IN
              IF row.panic THEN Panic
              ELSE ChangeMapLoop(changes, active, i + 1,
                       MapPut(mapChanges,
                              Deref(Deref(change.ResourceChange).LogicalResourceId),
                              row.value))

ChangeMap(changes, active) == ChangeMapLoop(changes, active, 1, EmptyMap)

RECURSIVE EventMapLoop(_, _, _)
EventMapLoop(events, i, mapEvents) ==
    IF i > Len(events) THEN Returns(mapEvents)
    ELSE LET event == events[i] IN
         IF IsNil(event.LogicalResourceId) THEN Panic
         ELSE LET row == CreateDisplayRowFromEvent(event) IN
              IF row.panic THEN Panic
              ELSE EventMapLoop(events, i + 1,
                       MapPut(mapEvents, Deref(event.LogicalResourceId), row.value))

\* a builder that keeps the first row written for an id
RECURSIVE EventMapFirstWinsLoop(_, _, _)
EventMapFirstWinsLoop(events, i, mapEvents) ==
    IF i > Len(events) THEN Returns(mapEvents)
    ELSE LET event == events[i] IN
         IF IsNil(event.LogicalResourceId) THEN Panic
         ELSE LET row == CreateDisplayRowFromEvent(event) IN
              IF row.panic THEN Panic
              ELSE EventMapFirstWinsLoop(events, i + 1,
                       IF Deref(event.LogicalResourceId) \in DOMAIN mapEvents
                       THEN mapEvents
                       ELSE MapPut(mapEvents, Deref(event.LogicalResourceId), row.value))

EventMapFirstWins(events) == EventMapFirstWinsLoop(events, 1, EmptyMap)

EventMap(events) == EventMapLoop(events, 1, EmptyMap)

RECURSIVE ResourceMapLoop(_, _, _)
ResourceMapLoop(resources, i, mapResources) ==
    IF i > Len(resources) THEN Returns(mapResources)
    ELSE LET resource == resources[i] IN
         IF IsNil(resource.LogicalResourceId) THEN Panic
         ELSE LET row == CreateDisplayRowFromResource(resource) IN
              IF row.panic THEN Panic
              ELSE ResourceMapLoop(resources, i + 1,
                       MapPut(mapResources, Deref(resource.LogicalResourceId),
                              row.value))

ResourceMap(resources) == ResourceMapLoop(resources, 1, EmptyMap)

\* the loop variable written back into the map it ranges over
ActivateDisplayRowsInPlace(rows) ==
    LET activated == [logicalID \in DOMAIN rows |->
                         [rows[logicalID] EXCEPT !.Active = TRUE]]
    IN [displayRows |-> activated, activatedDisplayRows |-> activated]

\* `event` is a copy of the map's entry: the write to event.Active reaches only
\* the copy, which is stored in the new map.  The result records the caller's
\* map after the call and the map returned.
ActivateDisplayRows(rows) ==
    [displayRows |-> rows,
     activatedDisplayRows |->
        [logicalID \in DOMAIN rows |-> [rows[logicalID] EXCEPT !.Active = TRUE]]]

(***************************************************************************)
(* Pagination Collector.  The cursor holds the pages the service will      *)
(* serve, the page whose fetch fails (0: none), the pages fetched so far   *)
(* and the error of the last fetch.                                        *)
(***************************************************************************)
NoError == ""
FetchError == "RequestError: send request failed"

NewPaginator(pages, failAt) ==
    [pages |-> pages, failAt |-> failAt, fetched |-> 0, err |-> NoError]

\* paginator.Next: FALSE when the cursor is exhausted or the fetch failed
PaginatorNext(p) ==
    IF p.fetched >= Len(p.pages) THEN [ok |-> FALSE, paginator |-> p]
    ELSE IF p.failAt = p.fetched + 1
         THEN [ok |-> FALSE, paginator |-> [p EXCEPT !.err = FetchError]]
         ELSE [ok |-> TRUE, paginator |-> [p EXCEPT !.fetched = @ + 1]]

\* paginator.CurrentPage().StackResourceSummaries
CurrentPage(p) == p.pages[p.fetched]

RECURSIVE GetResourcesLoop(_, _)
GetResourcesLoop(paginator, resources) ==
    LET next == PaginatorNext(paginator) IN
    IF next.ok
    THEN GetResourcesLoop(next.paginator, resources \o CurrentPage(next.paginator))
    ELSE [resources |-> resources, paginator |-> next.paginator]

\* a collector that takes an empty page for the end of the listing
RECURSIVE GetResourcesStopsAtEmptyLoop(_, _)
GetResourcesStopsAtEmptyLoop(paginator, resources) ==
    LET next == PaginatorNext(paginator) IN
    IF next.ok /\ CurrentPage(next.paginator) # <<>>
    THEN GetResourcesStopsAtEmptyLoop(next.paginator,
                                      resources \o CurrentPage(next.paginator))
    ELSE [resources |-> resources, paginator |-> next.paginator]

GetResourcesStopsAtEmpty(paginator) == GetResourcesStopsAtEmptyLoop(paginator, <<>>)

\* the slice returned, and the cursor as the call leaves it
GetResourcesFromPaginator(paginator) == GetResourcesLoop(paginator, <<>>)

(***************************************************************************)
(* Tag / parameter loaders.  A slice is nil or holds a sequence.  A file   *)
(* is missing, or holds a JSON document: malformed text, null, an object,  *)
(* or an array of objects whose Key / Value are absent, a string or a      *)
(* number.                                                                 *)
(***************************************************************************)
NilSlice == <<>>
Slice(s) == <<s>>

TagsErrorMessage ==
    "Unable to load tags. tags must be valid JSON and only of type string"
ParametersErrorMessage ==
    "Unable to load parameters. Parameters must be valid JSON and only of type string"
SyntaxError == "json: invalid character"
UnmarshalTypeError == "json: cannot unmarshal"

JAbsent == [t |-> "absent", s |-> ""]
JString(s) == [t |-> "string", s |-> s]
JNumber == [t |-> "number", s |-> ""]

\* ioutil.ReadFile
ReadFile(file) ==
    IF file.exists THEN [err |-> NoError, data |-> file.content]
    ELSE [err |-> "open: no such file or directory", data |-> <<>>]

\* one *string field of an entry: a string is stored, an absent field stays
\* nil, any other JSON type is a type error and the field stays nil
UnmarshalString(jv) == IF jv.t = "string" THEN Ptr(jv.s) ELSE Nil

UnmarshalEntry(e) == [Key |-> UnmarshalString(e.Key), Value |-> UnmarshalString(e.Value)]

EntryTypeError(e) == e.Key.t = "number" \/ e.Value.t = "number"

\* json.Unmarshal(data, &container): the error and the container afterwards
Unmarshal(data, container) ==
    IF data.kind = "malformed" THEN [err |-> SyntaxError, container |-> container]
    ELSE IF data.kind = "null" THEN [err |-> NoError, container |-> NilSlice]
    ELSE IF data.kind = "object"
         THEN [err |-> UnmarshalTypeError, container |-> container]
    ELSE [err |-> IF \E i \in 1..Len(data.elems) : EntryTypeError(data.elems[i])
                  THEN UnmarshalTypeError ELSE NoError,
          container |-> Slice([i \in 1..Len(data.elems) |->
                                  UnmarshalEntry(data.elems[i])])]

\* the body GetTags and GetParameters share, up to the message
Load(file, errorMessage) ==
    LET container == Slice(<<>>)
        read == ReadFile(file)
    IN IF read.err # NoError THEN [value |-> container, err |-> NoError]
       ELSE LET parsed == Unmarshal(read.data, container) IN
            IF parsed.err # NoError
            THEN [value |-> NilSlice, err |-> errorMessage]
            ELSE [value |-> parsed.container, err |-> NoError]

GetTags(file) == Load(file, TagsErrorMessage)

GetParameters(file) == Load(file, ParametersErrorMessage)

(***************************************************************************)
(* Inputs.                                                                 *)
(***************************************************************************)
LogicalIds == {"A", "B"}
ResourceTypes == {"AWS::S3::Bucket"}
StringPtrs(S) == {Nil} \cup {Ptr(s) : s \in S}

ResourceChanges ==
    [LogicalResourceId : StringPtrs(LogicalIds),
     ResourceType : StringPtrs(ResourceTypes),
     Replacement : {"", "True"},
     Action : {"", "Add", "Remove"}]

Changes == [ResourceChange : {Nil} \cup {Ptr(rc) : rc \in ResourceChanges}]

StackEvents ==
    [LogicalResourceId : StringPtrs(LogicalIds),
     ResourceType : StringPtrs(ResourceTypes),
     ResourceStatus : {"DELETE_IN_PROGRESS", "DELETE_COMPLETE"},
     Timestamp : {Nil, Ptr(1), Ptr(2)}]

StackResourceSummaries ==
    [LogicalResourceId : StringPtrs(LogicalIds),
     ResourceType : StringPtrs(ResourceTypes)]

\* the summaries of a listing the service returns: both fields set
ListedResources ==
    [LogicalResourceId : {Ptr(s) : s \in LogicalIds},
     ResourceType : {Ptr(s) : s \in ResourceTypes}]

DisplayRows ==
    {[ZeroDisplayRow EXCEPT !.LogicalResourceID = id, !.ResourceType = "AWS::S3::Bucket",
                            !.Action = a, !.Source = src, !.Active = act] :
        id \in LogicalIds, a \in {"Add", "Remove"},
        src \in {"", DisplayRowSourceChangeSet, DisplayRowSourceEvent},
        act \in BOOLEAN}

DisplayRowMaps ==
    UNION {{m \in [keys -> DisplayRows] :
               \A k \in keys : m[k].LogicalResourceID = k} : keys \in SUBSET LogicalIds}

Pages == SeqsUpTo(SeqsUpTo(ListedResources, MaxPageLen), MaxPages)

JValues == {JAbsent, JString("Env"), JNumber}
JEntries == [Key : JValues, Value : JValues]
JDocuments ==
    {[kind |-> "malformed", elems |-> <<>>], [kind |-> "null", elems |-> <<>>]}
    \cup {[kind |-> "object", elems |-> <<e>>] : e \in JEntries}
    \cup {[kind |-> "array", elems |-> es] : es \in SeqsUpTo(JEntries, MaxEntries)}

Files ==
    {[exists |-> FALSE, content |-> [kind |-> "null", elems |-> <<>>]]}
    \cup {[exists |-> TRUE, content |-> d] : d \in JDocuments}

StackStatuses ==
    Elems(PositiveStackStatus) \cup Elems(NegativeStackStatus)
    \cup Elems(PendingStackStatus) \cup Elems(RollbackStackStatus)

Outcomes == {"Complete", "Failed", "InProgress"}
Operations == {"Create", "Delete", "Update"}

\* cloudformation.ResourceStatus<Operation><Outcome>
ResourceStatus(operation, outcome) ==
    (CASE operation = "Create" -> "CREATE"
       [] operation = "Delete" -> "DELETE"
       [] operation = "Update" -> "UPDATE")
    \o "_" \o
    (CASE outcome = "Complete" -> "COMPLETE"
       [] outcome = "Failed" -> "FAILED"
       [] outcome = "InProgress" -> "IN_PROGRESS")

(***************************************************************************)
(* The calls.                                                              *)
(***************************************************************************)
PureOps ==
    {"CreateDisplayRowFromChange", "CreateDisplayRowFromEvent",
     "CreateDisplayRowFromResource", "ChangeMap", "EventMap", "ResourceMap",
     "ActivateDisplayRows", "GetResourcesFromPaginator", "GetTags",
     "GetParameters", "ClassifyStackStatus", "ClassifyEventStatus"}

Inputs(o) ==
    CASE o = "CreateDisplayRowFromChange" -> [change : Changes, active : BOOLEAN]
      [] o = "CreateDisplayRowFromEvent" -> [event : StackEvents]
      [] o = "CreateDisplayRowFromResource" -> [resource : StackResourceSummaries]
      [] o = "ChangeMap" -> [changes : SeqsUpTo(Changes, MaxRecords), active : BOOLEAN]
      [] o = "EventMap" -> [events : SeqsUpTo(StackEvents, MaxRecords)]
      [] o = "ResourceMap" ->
             [resources : SeqsUpTo(StackResourceSummaries, MaxRecords)]
      [] o = "ActivateDisplayRows" -> [displayRows : DisplayRowMaps]
      [] o = "GetResourcesFromPaginator" ->
             [pages : Pages, failAt : 0..MaxPages]
      [] o = "GetTags" -> [file : Files]
      [] o = "GetParameters" -> [file : Files]
      [] o = "ClassifyStackStatus" -> [status : StackStatuses]
      [] o = "ClassifyEventStatus" -> [operation : Operations, outcome : Outcomes]
      [] o = "Down" ->
             [stackName : {"app", "db"},
              resources : SeqsUpTo(ListedResources, MaxRecords)]

NoResult == [none |-> TRUE]

\* a stack that exists and is at rest
ExistingStackStatus == {"CREATE_COMPLETE", "UPDATE_COMPLETE"}

Init ==
    /\ pc = "start"
    /\ result = NoResult
    /\ displayRows = EmptyMap
    /\ eventFetches = 0
    /\ \/ /\ op \in PureOps
          /\ args \in Inputs(op)
          /\ op = "GetResourcesFromPaginator" => args.failAt <= Len(args.pages)
          /\ stackStatus = "CREATE_COMPLETE"
       \/ /\ op = "Down"
          /\ args \in Inputs("Down")
          /\ stackStatus \in ExistingStackStatus

\* a call of a function of the data package: the whole call is one step
Call(o, value) ==
    /\ op = o
    /\ pc = "start"
    /\ pc' = "returned"
    /\ result' = value
    /\ UNCHANGED <<op, args, stackStatus, displayRows, eventFetches>>

CallCreateDisplayRowFromChange ==
    Call("CreateDisplayRowFromChange",
         CreateDisplayRowFromChange(args.change, args.active))

CallCreateDisplayRowFromEvent ==
    Call("CreateDisplayRowFromEvent", CreateDisplayRowFromEvent(args.event))

CallCreateDisplayRowFromResource ==
    Call("CreateDisplayRowFromResource", CreateDisplayRowFromResource(args.resource))

CallChangeMap == Call("ChangeMap", ChangeMap(args.changes, args.active))

CallEventMap == Call("EventMap", EventMap(args.events))

CallResourceMap == Call("ResourceMap", ResourceMap(args.resources))

CallActivateDisplayRows ==
    Call("ActivateDisplayRows", ActivateDisplayRows(args.displayRows))

CallGetResourcesFromPaginator ==
    Call("GetResourcesFromPaginator",
         GetResourcesFromPaginator(NewPaginator(args.pages, args.failAt)))

CallGetTags == Call("GetTags", GetTags(args.file))

CallGetParameters == Call("GetParameters", GetParameters(args.file))

\* the Status Classifier: membership of a stack status in each table
ClassifyStackStatus ==
    Call("ClassifyStackStatus",
         [positive |-> InTable(PositiveStackStatus, args.status),
          negative |-> InTable(NegativeStackStatus, args.status),
          pending |-> InTable(PendingStackStatus, args.status),
          rollback |-> InTable(RollbackStackStatus, args.status)])

\* the Status Classifier: membership of a resource status in each table
ClassifyEventStatus ==
    LET status == ResourceStatus(args.operation, args.outcome) IN
    Call("ClassifyEventStatus",
         [positive |-> InTable(PositiveEventStatus, status),
          negative |-> InTable(NegativeEventStatus, status),
          pending |-> InTable(PendingEventStatus, status)])

(***************************************************************************)
(* The down command.  Down verifies the credentials, submits the deletion  *)
(* and returns; the service then carries the deletion out.                 *)
(***************************************************************************)
CredentialsError == "NoCredentialProviders: no valid providers in chain"
DeleteError == "ValidationError: stack cannot be deleted"

\* err := cfn.VerifyAWSCredentials(); if err != nil { return err }
DownVerifyAWSCredentials ==
    /\ op = "Down"
    /\ pc = "start"
    /\ \E err \in {NoError, CredentialsError} :
          /\ pc' = IF err # NoError THEN "returned" ELSE "verified"
          /\ result' = IF err # NoError THEN [err |-> err] ELSE result
    /\ UNCHANGED <<op, args, stackStatus, displayRows, eventFetches>>

\* err = cfn.DeleteStack(stackName); if err != nil { return err }; return nil
DownDeleteStack ==
    /\ op = "Down"
    /\ pc = "verified"
    /\ \E err \in {NoError, DeleteError} :
          /\ result' = [err |-> err]
          /\ stackStatus' = IF err = NoError THEN "DELETE_IN_PROGRESS" ELSE stackStatus
    /\ pc' = "returned"
    /\ UNCHANGED <<op, args, displayRows, eventFetches>>

\* the service finishes a deletion that was submitted
StackDeletionEnds ==
    /\ op = "Down"
    /\ stackStatus = "DELETE_IN_PROGRESS"
    /\ stackStatus' \in {"DELETE_COMPLETE", "DELETE_FAILED"}
    /\ UNCHANGED <<op, args, pc, result, displayRows, eventFetches>>

Next ==
    \/ CallCreateDisplayRowFromChange
    \/ CallCreateDisplayRowFromEvent
    \/ CallCreateDisplayRowFromResource
    \/ CallChangeMap
    \/ CallEventMap
    \/ CallResourceMap
    \/ CallActivateDisplayRows
    \/ CallGetResourcesFromPaginator
    \/ CallGetTags
    \/ CallGetParameters
    \/ ClassifyStackStatus
    \/ ClassifyEventStatus
    \/ DownVerifyAWSCredentials
    \/ DownDeleteStack
    \/ StackDeletionEnds

Spec == Init /\ [][Next]_vars

Returned(o) == op = o /\ pc = "returned"

(***************************************************************************)
(* Properties.                                                             *)
(***************************************************************************)
RowFields == DOMAIN ZeroDisplayRow

\* C1: ActivateDisplayRows returns a map with exactly the keys of its input,
\* every returned row is active and equals the input row in every other field,
\* and the caller's map is after the call what it was before it.
ActivateDisplayRowsCopies ==
    Returned("ActivateDisplayRows") =>
        LET before == args.displayRows
            after == result.displayRows
            activated == result.activatedDisplayRows
        IN /\ DOMAIN activated = DOMAIN before
           /\ \A k \in DOMAIN before :
                 /\ activated[k].Active = TRUE
                 /\ \A f \in RowFields \ {"Active"} : activated[k][f] = before[k][f]
           /\ DOMAIN after = DOMAIN before
           /\ \A k \in DOMAIN before : \A f \in RowFields : after[k][f] = before[k][f]

\* an inactive row was activated in the returned map and is still inactive in
\* the caller's map
ActivateDisplayRowsWitness ==
    /\ Returned("ActivateDisplayRows")
    /\ \E k \in DOMAIN args.displayRows :
          /\ ~args.displayRows[k].Active
          /\ result.activatedDisplayRows[k].Active
          /\ ~result.displayRows[k].Active

ChangeId(change) == Deref(Deref(change.ResourceChange).LogicalResourceId)

ChangeLacksRequired(change) ==
    \/ IsNil(change.ResourceChange)
    \/ IsNil(Deref(change.ResourceChange).LogicalResourceId)
    \/ IsNil(Deref(change.ResourceChange).ResourceType)

EventLacksRequired(event) == IsNil(event.LogicalResourceId) \/ IsNil(event.ResourceType)

ResourceLacksRequired(resource) ==
    IsNil(resource.LogicalResourceId) \/ IsNil(resource.ResourceType)

\* the last position of id in the sequence of ids
LastIndexOf(ids, id) ==
    CHOOSE i \in 1..Len(ids) : ids[i] = id /\ \A j \in (i + 1)..Len(ids) : ids[j] # id

\* the map holds exactly the ids of the input, each with the row of the last
\* entry carrying it
LastWriteWins(map, ids, rows) ==
    /\ DOMAIN map = {ids[i] : i \in 1..Len(ids)}
    /\ \A id \in DOMAIN map : map[id] = rows[LastIndexOf(ids, id)]

\* C2: ChangeMap, EventMap and ResourceMap each return a map whose key set is
\* the set of logical ids of the input and whose row for an id is the
\* normalisation of the last entry, in input order, that carries the id; an
\* input whose entries have their pointer fields set is always built.
BuildersLastWriteWins ==
    /\ Returned("ChangeMap") =>
          ((\A i \in 1..Len(args.changes) : ~ChangeLacksRequired(args.changes[i]))
              => ~result.panic)
    /\ Returned("ResourceMap") =>
          ((\A i \in 1..Len(args.resources) : ~ResourceLacksRequired(args.resources[i]))
              => ~result.panic)
    /\ Returned("EventMap") =>
          ((\A i \in 1..Len(args.events) :
                ~EventLacksRequired(args.events[i]) /\ ~IsNil(args.events[i].Timestamp))
              => ~result.panic)
    /\ (Returned("ChangeMap") /\ ~result.panic) =>
          LastWriteWins(result.value,
              [i \in 1..Len(args.changes) |-> ChangeId(args.changes[i])],
              [i \in 1..Len(args.changes) |->
                  CreateDisplayRowFromChange(args.changes[i], args.active).value])
    /\ (Returned("EventMap") /\ ~result.panic) =>
          LastWriteWins(result.value,
              [i \in 1..Len(args.events) |-> Deref(args.events[i].LogicalResourceId)],
              [i \in 1..Len(args.events) |->
                  CreateDisplayRowFromEvent(args.events[i]).value])
    /\ (Returned("ResourceMap") /\ ~result.panic) =>
          LastWriteWins(result.value,
              [i \in 1..Len(args.resources) |->
                  Deref(args.resources[i].LogicalResourceId)],
              [i \in 1..Len(args.resources) |->
                  CreateDisplayRowFromResource(args.resources[i]).value])

\* two events for one id, the later one in input order with the earlier
\* timestamp: the map holds the later one
BuildersLastWriteWinsWitness ==
    /\ Returned("EventMap")
    /\ ~result.panic
    /\ Len(args.events) = 2
    /\ args.events[1].LogicalResourceId = args.events[2].LogicalResourceId
    /\ Deref(args.events[1].Timestamp) > Deref(args.events[2].Timestamp)
    /\ args.events[1].ResourceStatus # args.events[2].ResourceStatus
    /\ result.value[Deref(args.events[2].LogicalResourceId)].Status
          = args.events[2].ResourceStatus

\* C3: when Down returns without an error, it has seeded the display map from
\* the stack's resource listing, polled the events, and the stack has reached
\* a terminal status.
DownWatchesUntilTerminal ==
    (Returned("Down") /\ result.err = NoError) =>
        /\ displayRows = ResourceMap(args.resources).value
        /\ eventFetches > 0
        /\ \/ InTable(PositiveStackStatus, stackStatus)
           \/ InTable(NegativeStackStatus, stackStatus)

RECURSIVE PageOffset(_, _)
PageOffset(pages, p) == IF p = 1 THEN 0 ELSE PageOffset(pages, p - 1) + Len(pages[p - 1])

\* C5: on a cursor none of whose fetches fails, GetResourcesFromPaginator
\* fetches every page and returns the pages' summaries in order: item j of
\* page p is item PageOffset(p) + j of the result, and the result holds
\* nothing else.
CollectorConcatenatesAllPages ==
    (Returned("GetResourcesFromPaginator") /\ args.failAt = 0) =>
        LET pages == args.pages
            n == Len(pages)
        IN /\ result.paginator.fetched = n
           /\ result.paginator.err = NoError
           /\ Len(result.resources) = PageOffset(pages, n + 1)
           /\ \A p \in 1..n : \A j \in 1..Len(pages[p]) :
                 result.resources[PageOffset(pages, p) + j] = pages[p][j]

\* an empty page in the middle, a page of two different summaries, and all of
\* it collected
CollectorWitness ==
    /\ Returned("GetResourcesFromPaginator")
    /\ args.failAt = 0
    /\ Len(args.pages) = 3
    /\ Len(args.pages[1]) = 2
    /\ args.pages[1][1] # args.pages[1][2]
    /\ args.pages[2] = <<>>
    /\ args.pages[3] # <<>>
    /\ Len(result.resources) = 2 + Len(args.pages[3])

\* C6: when a page fetch fails, what GetResourcesFromPaginator returns differs
\* from what it returns for a listing that ended, after the same pages,
\* without a failure.
CollectorPropagatesFetchFailure ==
    (Returned("GetResourcesFromPaginator") /\ result.paginator.err # NoError) =>
        result.resources #
            GetResourcesFromPaginator(
                NewPaginator(SubSeq(args.pages, 1, result.paginator.fetched), 0)).resources

\* C7 as stated: a record that lacks a required field (for a change:
\* logical id, type, replacement or action) ends the conversion and the map
\* builder in a panic, and no row comes from it.
NormalizerNeverDefaults ==
    /\ Returned("CreateDisplayRowFromChange") =>
          ((\/ ChangeLacksRequired(args.change)
            \/ Deref(args.change.ResourceChange).Replacement = ""
            \/ Deref(args.change.ResourceChange).Action = "") => result.panic)
    /\ Returned("CreateDisplayRowFromEvent") =>
          (EventLacksRequired(args.event) => result.panic)
    /\ Returned("CreateDisplayRowFromResource") =>
          (ResourceLacksRequired(args.resource) => result.panic)

\* C7, amended: a change, event or resource summary without logical id or
\* type (a change without its ResourceChange) ends the conversion, and the map
\* builder that holds it, in a panic with no row; a change that has them is
\* converted whatever its Replacement and Action, which the row carries as
\* they are, the zero value included.
NormalizerPanicsOnNilOnly ==
    /\ Returned("CreateDisplayRowFromChange") =>
          /\ ChangeLacksRequired(args.change) =>
                (result.panic /\ "value" \notin DOMAIN result)
          /\ ~ChangeLacksRequired(args.change) =>
                /\ ~result.panic
                /\ result.value.Replacement = Deref(args.change.ResourceChange).Replacement
                /\ result.value.Action = Deref(args.change.ResourceChange).Action
    /\ Returned("CreateDisplayRowFromEvent") =>
          (EventLacksRequired(args.event) =>
              (result.panic /\ "value" \notin DOMAIN result))
    /\ Returned("CreateDisplayRowFromResource") =>
          (ResourceLacksRequired(args.resource) =>
              (result.panic /\ "value" \notin DOMAIN result))
    /\ Returned("ChangeMap") =>
          ((\E i \in 1..Len(args.changes) : ChangeLacksRequired(args.changes[i]))
              => (result.panic /\ "value" \notin DOMAIN result))
    /\ Returned("EventMap") =>
          ((\E i \in 1..Len(args.events) : EventLacksRequired(args.events[i]))
              => (result.panic /\ "value" \notin DOMAIN result))
    /\ Returned("ResourceMap") =>
          ((\E i \in 1..Len(args.resources) : ResourceLacksRequired(args.resources[i]))
              => (result.panic /\ "value" \notin DOMAIN result))

\* a change without Replacement and Action was converted to a row with both
\* at the zero value
NormalizerWitness ==
    /\ Returned("CreateDisplayRowFromChange")
    /\ ~ChangeLacksRequired(args.change)
    /\ ~result.panic
    /\ result.value.Replacement = ""
    /\ result.value.Action = ""

LoaderMessage == IF op = "GetTags" THEN TagsErrorMessage ELSE ParametersErrorMessage

\* a document the loader is to refuse: malformed text, or an entry whose
\* Value is absent or not a string
LoaderRefuses(content) ==
    \/ content.kind = "malformed"
    \/ /\ content.kind \in {"object", "array"}
       /\ \E i \in 1..Len(content.elems) : content.elems[i].Value.t # "string"

\* C8: GetTags and GetParameters return an empty sequence and no error for a
\* missing file; the fixed message and no sequence for malformed JSON and for
\* entries whose Value is absent or not a string; never a sequence together
\* with an error.
LoaderValidates ==
    (Returned("GetTags") \/ Returned("GetParameters")) =>
        /\ ~args.file.exists => result = [value |-> Slice(<<>>), err |-> NoError]
        /\ (args.file.exists /\ LoaderRefuses(args.file.content)) =>
              (result.err = LoaderMessage /\ result.value = NilSlice)
        /\ ~(result.value # NilSlice /\ result.err # NoError)

\* C9: a row from a change has Source change, Active as the caller gave it,
\* the payload's id, type, Replacement and Action, and every other field zero;
\* a row from an event has Source event, Active false, the event's id, type,
\* status and timestamp, and every other field zero; a row from a resource
\* summary has Action Remove, its id and type, and every other field (Source,
\* Active) zero; ChangeMap(changes, true) holds only active rows of Source
\* change.
ConversionsSetListedFields ==
    /\ (Returned("CreateDisplayRowFromChange") /\ ~result.panic) =>
          LET rc == Deref(args.change.ResourceChange)
              row == result.value
          IN /\ row.Source = "change"
             /\ row.Active = args.active
             /\ row.LogicalResourceID = Deref(rc.LogicalResourceId)
             /\ row.ResourceType = Deref(rc.ResourceType)
             /\ row.Replacement = rc.Replacement
             /\ row.Action = rc.Action
             /\ row.Status = "" /\ row.Timestamp = 0 /\ row.StatusReason = ""
    /\ (Returned("CreateDisplayRowFromEvent") /\ ~result.panic) =>
          LET row == result.value
          IN /\ row.Source = "event"
             /\ row.Active = FALSE
             /\ row.LogicalResourceID = Deref(args.event.LogicalResourceId)
             /\ row.ResourceType = Deref(args.event.ResourceType)
             /\ row.Status = args.event.ResourceStatus
             /\ row.Timestamp = Deref(args.event.Timestamp)
             /\ row.Replacement = "" /\ row.Action = "" /\ row.StatusReason = ""
    /\ (Returned("CreateDisplayRowFromResource") /\ ~result.panic) =>
          LET row == result.value
          IN /\ row.Action = "Remove"
             /\ row.Source = ""
             /\ row.Active = FALSE
             /\ row.LogicalResourceID = Deref(args.resource.LogicalResourceId)
             /\ row.ResourceType = Deref(args.resource.ResourceType)
             /\ row.Status = "" /\ row.Timestamp = 0
             /\ row.Replacement = "" /\ row.StatusReason = ""
    /\ (Returned("ChangeMap") /\ ~result.panic /\ args.active) =>
          \A id \in DOMAIN result.value :
              result.value[id].Active /\ result.value[id].Source = "change"

\* ChangeMap(changes, true) for an Add of one id and a Remove of the other:
\* two rows, both active, both of Source change
ConversionsWitness ==
    /\ Returned("ChangeMap")
    /\ args.active
    /\ ~result.panic
    /\ DOMAIN result.value = {"A", "B"}
    /\ result.value["A"].Action = "Add"
    /\ result.value["B"].Action = "Remove"
    /\ result.value["A"].Active /\ result.value["B"].Active
    /\ result.value["A"].Source = "change"

\* C10: each of the nine resource statuses is in exactly one of the three
\* event tables, the one of its outcome, and each table holds exactly the
\* Create, Delete and Update status of its outcome.
EventTablesPartition ==
    /\ Returned("ClassifyEventStatus") =>
          /\ result.positive <=> args.outcome = "Complete"
          /\ result.negative <=> args.outcome = "Failed"
          /\ result.pending <=> args.outcome = "InProgress"
          /\ Cardinality({t \in {"positive", "negative", "pending"} : result[t]}) = 1
    /\ Elems(PositiveEventStatus) = {ResourceStatus(o, "Complete") : o \in Operations}
    /\ Elems(NegativeEventStatus) = {ResourceStatus(o, "Failed") : o \in Operations}
    /\ Elems(PendingEventStatus) = {ResourceStatus(o, "InProgress") : o \in Operations}

\* the failed update was classified: negative only
EventTablesWitness ==
    /\ Returned("ClassifyEventStatus")
    /\ args.operation = "Update"
    /\ args.outcome = "Failed"
    /\ result.negative
    /\ ~result.positive
    /\ ~result.pending

====
